---- MODULE Spec2Model ----
(***************************************************************************)
(* Movie catalog HTTP API (FastAPI + SQLAlchemy): the five handlers of     *)
(* routes/movies.py over the tables of database/models.py, behind the      *)
(* request validation of schemas/movies.py.                                *)
(*                                                                         *)
(* Optional values are sequences: <<>> is None, <<v>> is the value v.      *)
(* Dates are day numbers; Today is date.today().                           *)
(* An attribute access obj.a is resolved against the attribute set of the  *)
(* class of obj as the class is declared; an access that does not resolve  *)
(* raises AttributeError, which no handler catches.                        *)
(***************************************************************************)
EXTENDS Integers, Sequences, FiniteSets, TLC

VARIABLES db, pending, resp

vars == <<db, pending, resp>>

\* ------------------------------------------------------------- bounds
NumClients == 2
MaxSeedMovies == 3
MaxPage == 4

\* ---------------------------------------------------- program constants
Today == 0
MaxFutureDays == 365
PerPageMax == 20
ScoreMax == 100

Clients == 1..NumClients
None == <<>>
Some(v) == <<v>>
TagKinds == {"genres", "actors", "languages"}

\* ------------------------------------------- classes as they are declared
\* database/models.py: the mapped attributes of each ORM class
MovieModelAttrs ==
    {"id_", "name", "date", "score", "overview", "status", "budget",
     "revenue", "country_id", "country", "genres", "actors", "languages"}
CountryModelAttrs == {"id_", "code", "name", "movies"}
TagModelAttrs == {"id_", "name", "movies"}

\* schemas/movies.py: the fields of the request models
MovieCreateFields ==
    {"name", "release_date", "score", "overview", "status", "budget",
     "revenue", "country", "genres", "actors", "languages"}
MovieUpdateFields ==
    {"name", "release_date", "score", "overview", "status", "budget",
     "revenue", "country", "genres", "actors", "languages"}
AssociationFields == {"country", "genres", "actors", "languages"}

\* schemas/movies.py MovieStatus: the values a request may carry
MovieStatus == {"Released", "Post Production", "In Production"}

\* database/models.py MovieStatusEnum: member name -> value
MovieStatusEnum ==
    [RELEASED |-> "Released",
     POST_PRODUCTION |-> "Post PRODUCTION",
     IN_PRODUCTION |-> "In Production"]

\* sqlalchemy Enum(MovieStatusEnum): a bound value is stored under the name
\* of the member it equals, or under itself when it is a member name;
\* anything else is refused (LookupError) when the row is flushed.
StatusStorable(v) ==
    \/ \E n \in DOMAIN MovieStatusEnum : MovieStatusEnum[n] = v
    \/ v \in DOMAIN MovieStatusEnum
StatusDbValue(v) ==
    IF v \in DOMAIN MovieStatusEnum THEN v
    ELSE CHOOSE n \in DOMAIN MovieStatusEnum : MovieStatusEnum[n] = v

\* ------------------------------------------------------------ database
\* database/models.py: one set of rows per table.  movies rows carry the
\* columns of MovieModel; status holds the stored member name.
\* junction[k] is the secondary table of relation k: rows (movie_id, tag_id).
MaxOf(S) == IF S = {} THEN 0 ELSE CHOOSE x \in S : \A y \in S : y <= x

\* autoincrement primary key
NextId(rows) == MaxOf({r.id_ : r \in rows}) + 1

\* MovieModel.__table_args__: UniqueConstraint("name", "date")
UniqueMovieConstraint(d) ==
    \A m1, m2 \in d.movies :
        (m1.name = m2.name /\ m1.date = m2.date) => m1 = m2

\* unique=True on countries.code and on genres/actors/languages.name
UniqueNaturalKeys(d) ==
    /\ \A c1, c2 \in d.countries : c1.code = c2.code => c1 = c2
    /\ \A k \in TagKinds :
         \A t1, t2 \in d.tags[k] : t1.name = t2.name => t1 = t2

\* primary keys, and the foreign keys of movies and of the junction tables
KeysOK(d) ==
    /\ \A m1, m2 \in d.movies : m1.id_ = m2.id_ => m1 = m2
    /\ \A c1, c2 \in d.countries : c1.id_ = c2.id_ => c1 = c2
    /\ \A k \in TagKinds :
         /\ \A t1, t2 \in d.tags[k] : t1.id_ = t2.id_ => t1 = t2
         /\ \A j \in d.junction[k] :
              /\ \E m \in d.movies : m.id_ = j.movie_id
              /\ \E t \in d.tags[k] : t.id_ = j.tag_id
    /\ \A m \in d.movies :
         m.country_id # None =>
             \E c \in d.countries : c.id_ = m.country_id[1]

SchemaOK(d) == UniqueMovieConstraint(d) /\ UniqueNaturalKeys(d) /\ KeysOK(d)

\* ---------------------------------------------------------- seeded data
\* tests/conftest.py: the schema is created empty (db_clean_setup) and may
\* then be seeded (seed_database).  A seeded catalog holds the first n of
\* these movies, with one of three shapes of tag data.
MovieNames == {"Alpha", "Beta"}
SeedKeys ==
    <<[name |-> "Alpha", date |-> Today + MaxFutureDays],
      [name |-> "Beta", date |-> Today + MaxFutureDays],
      [name |-> "Alpha", date |-> Today],
      [name |-> "Beta", date |-> Today]>>
SeedStatus == <<"RELEASED", "POST_PRODUCTION", "IN_PRODUCTION", "RELEASED">>
SeedShapes == {"bare", "shared", "own"}
TagName(k, i) ==
    CASE k = "genres" -> IF i = 1 THEN "Drama" ELSE "Noir"
      [] k = "actors" -> IF i = 1 THEN "Ann" ELSE "Bob"
      [] OTHER -> IF i = 1 THEN "en" ELSE "fr"

SeedMovie(i, shape) ==
    [id_ |-> i,
     name |-> SeedKeys[i].name,
     date |-> SeedKeys[i].date,
     score |-> Some(50),
     overview |-> None,
     status |-> SeedStatus[i],
     budget |-> Some(10),
     revenue |-> None,
     country_id |-> IF shape = "bare" THEN None ELSE Some(1)]

SeedDb(n, shape) ==
    LET tagIds == IF shape = "bare" \/ n = 0 THEN {}
                  ELSE IF shape = "shared" THEN {1} ELSE {1, 2}
        tagOf(i) == IF shape = "own" /\ i > 1 THEN 2 ELSE 1
    IN  [movies |-> {SeedMovie(i, shape) : i \in 1..n},
         countries |-> IF shape = "bare" \/ n = 0 THEN {}
                       ELSE {[id_ |-> 1, code |-> "US", name |-> None]},
         tags |-> [k \in TagKinds |->
                      {[id_ |-> t, name |-> TagName(k, t)] : t \in tagIds}],
         junction |-> [k \in TagKinds |->
                      IF shape = "bare" THEN {}
                      ELSE {[movie_id |-> i, tag_id |-> tagOf(i)] : i \in 1..n}]]

SeedCatalogs == {SeedDb(n, shape) : n \in 0..MaxSeedMovies, shape \in SeedShapes}

\* ------------------------------------------------------------ requests
\* A request: op is the route, the other fields its path, query and body
\* parameters (unused ones hold NoData / 0).
NoData == [fields_set |-> {}]
NoReq == [op |-> "none", page |-> 0, per_page |-> 0, movie_id |-> 0,
          data |-> NoData]
Req(op, page, per_page, movie_id, data) ==
    [op |-> op, page |-> page, per_page |-> per_page, movie_id |-> movie_id,
     data |-> data]

RequestDates == {Today + MaxFutureDays, Today + MaxFutureDays + 1}
Scores == {None, Some(ScoreMax), Some(ScoreMax + 1), Some(0 - 1)}
Amounts == {None, Some(0), Some(0 - 1)}

\* bodies of POST /movies/ (every field of MovieCreate given)
BaseCreate ==
    [name |-> "Alpha", release_date |-> Today + MaxFutureDays,
     score |-> Some(50), overview |-> Some("plot"), status |-> "Released",
     budget |-> Some(10), revenue |-> Some(20), country |-> "US",
     genres |-> <<"Drama">>, actors |-> <<"Ann">>, languages |-> <<"en">>,
     fields_set |-> MovieCreateFields]
CreateInputs ==
    {[BaseCreate EXCEPT !.name = n, !.release_date = d, !.status = s,
                        !.overview = o] :
        n \in MovieNames, d \in RequestDates, s \in MovieStatus,
        o \in {None, Some("plot")}}
    \cup
    {[BaseCreate EXCEPT !.name = "Beta", !.score = sc, !.budget = b,
                        !.revenue = r] :
        sc \in Scores, b \in Amounts, r \in Amounts}
    \cup
    {[BaseCreate EXCEPT !.name = "Beta", !.country = c, !.genres = g,
                        !.actors = a] :
        c \in {"", "US", "FR"},
        g \in {<<>>, <<"Drama">>, <<"Noir", "Noir">>, <<"Drama", "Noir">>},
        a \in {<<>>, <<"Ann">>}}

\* bodies of PATCH /movies/{id}/: every field defaults to None, fields_set
\* names the fields the body carries (pydantic's model_fields_set)
BaseUpdate ==
    [name |-> None, release_date |-> None, score |-> None,
     overview |-> None, status |-> None, budget |-> None, revenue |-> None,
     country |-> None, genres |-> None, actors |-> None, languages |-> None,
     fields_set |-> {}]
\* a choice for one field: absent, or present with a value (None is null)
Given(values) ==
    {[on |-> FALSE, v |-> None]} \cup {[on |-> TRUE, v |-> x] : x \in values}
SetOf(fs) == {f \in DOMAIN fs : fs[f].on}
UpdateInputs ==
    {[BaseUpdate EXCEPT !.score = c.score.v, !.budget = c.budget.v,
                        !.revenue = c.revenue.v, !.fields_set = SetOf(c)] :
        c \in [score : Given({None, Some(70), Some(ScoreMax + 1),
                                       Some(0 - 1)}),
               budget : Given({Some(5), Some(0 - 1)}),
               revenue : Given({Some(0 - 1)})]}
    \cup
    {[BaseUpdate EXCEPT !.name = c.name.v, !.release_date = c.release_date.v,
                        !.status = c.status.v, !.overview = c.overview.v,
                        !.fields_set = SetOf(c)] :
        c \in [name : Given({Some("Beta")}),
               release_date : Given({Some(Today)}),
               status : Given({Some("Post Production"),
                                         Some("In Production")}),
               overview : Given({Some("new plot")})]}
    \cup
    {[BaseUpdate EXCEPT !.country = c.country.v, !.genres = c.genres.v,
                        !.actors = c.actors.v, !.languages = c.languages.v,
                        !.fields_set = SetOf(c)] :
        c \in [country : Given({Some("FR")}),
               genres : Given({Some(<<"Noir">>), Some(<<>>)}),
               actors : Given({Some(<<"Bob">>)}),
               languages : Given({Some(<<"fr">>)})]}

MovieIds == 1..(MaxSeedMovies + 1)
Pages == 0..MaxPage
PerPages == {0, 1, 2, 3, PerPageMax, PerPageMax + 1}

Requests ==
    {Req("list", p, n, 0, NoData) : p \in Pages, n \in PerPages}
    \cup {Req("get", 0, 0, i, NoData) : i \in MovieIds}
    \cup {Req("delete", 0, 0, i, NoData) : i \in MovieIds}
    \cup {Req("create", 0, 0, 0, d) : d \in CreateInputs}
    \cup {Req("update", 0, 0, i, d) : i \in MovieIds, d \in UpdateInputs}

\* ---------------------------------------------------- request validation
\* FastAPI validates query parameters and the body against the declared
\* types before the handler is called; a failure is a RequestValidationError.
InRange(opt, lo, hi) == opt = None \/ (lo <= opt[1] /\ opt[1] <= hi)
NonNegative(opt) == opt = None \/ opt[1] >= 0

\* list_movies: page: Query(1, ge=1), per_page: Query(10, ge=1, le=20)
ValidListQuery(page, per_page) ==
    page >= 1 /\ per_page >= 1 /\ per_page <= PerPageMax

\* MovieCreate, with validate_release_date
ValidMovieCreate(d) ==
    /\ InRange(d.score, 0, ScoreMax)
    /\ NonNegative(d.budget)
    /\ NonNegative(d.revenue)
    /\ d.status \in MovieStatus
    /\ ~(d.release_date > Today + MaxFutureDays)

\* MovieUpdate, with validate_score and validate_non_negative
ValidMovieUpdate(d) ==
    /\ InRange(d.score, 0, ScoreMax)
    /\ NonNegative(d.budget)
    /\ NonNegative(d.revenue)
    /\ d.status = None \/ d.status[1] \in MovieStatus

ValidRequest(r) ==
    CASE r.op = "list" -> ValidListQuery(r.page, r.per_page)
      [] r.op = "create" -> ValidMovieCreate(r.data)
      [] r.op = "update" -> ValidMovieUpdate(r.data)
      [] OTHER -> TRUE

\* ------------------------------------------------------------ responses
HTTP_200_OK == 200
HTTP_201_CREATED == 201
HTTP_204_NO_CONTENT == 204
HTTP_400_BAD_REQUEST == 400
HTTP_404_NOT_FOUND == 404
HTTP_409_CONFLICT == 409
HTTP_422_UNPROCESSABLE == 422
HTTP_500_INTERNAL == 500

NoBody == <<>>
\* what a handler leaves: the response and the committed database
Result(status, body, d) == [status |-> status, body |-> body, db |-> d]

\* attribute access on a class or an instance of it
Resolves(attrs, a) == a \in attrs

RECURSIVE OrderByIdDesc(_)
\* select(MovieModel).order_by(MovieModel.id.desc())
OrderByIdDesc(rows) ==
    IF rows = {} THEN <<>>
    ELSE LET top == CHOOSE m \in rows : \A o \in rows : o.id_ <= m.id_
         IN  <<top>> \o OrderByIdDesc(rows \ {top})

RECURSIVE OrderByIdAsc(_)
OrderByIdAsc(rows) ==
    IF rows = {} THEN <<>>
    ELSE LET low == CHOOSE m \in rows : \A o \in rows : m.id_ <= o.id_
         IN  <<low>> \o OrderByIdAsc(rows \ {low})

\* .offset(offset).limit(limit) of an ordered result
OffsetLimit(seq, offset, limit) ==
    SubSeq(seq, offset + 1,
           IF offset + limit < Len(seq) THEN offset + limit ELSE Len(seq))

\* the loaded relations of a movie row
CountryOf(d, m) ==
    IF m.country_id = None THEN None
    ELSE Some(CHOOSE c \in d.countries : c.id_ = m.country_id[1])
TagsOf(d, k, m) ==
    OrderByIdAsc({t \in d.tags[k] :
                    [movie_id |-> m.id_, tag_id |-> t.id_] \in d.junction[k]})

\* MovieFull.model_validate(m, from_attributes=True): the status read from
\* the row is the member's value, which must be a value of MovieStatus
FullValidates(m) == MovieStatusEnum[m.status] \in MovieStatus
MovieFull(d, m) ==
    [id |-> m.id_, name |-> m.name, release_date |-> m.date,
     status |-> MovieStatusEnum[m.status], score |-> m.score,
     overview |-> m.overview, budget |-> m.budget, revenue |-> m.revenue,
     country |-> CountryOf(d, m),
     genres |-> TagsOf(d, "genres", m),
     actors |-> TagsOf(d, "actors", m),
     languages |-> TagsOf(d, "languages", m)]
MovieShort(m) ==
    [id |-> m.id_, name |-> m.name, release_date |-> m.date,
     score |-> m.score, overview |-> m.overview]

\* f"{base_url}?page={page}&per_page={per_page}"
PageLink(page, per_page) ==
    [base_url |-> "/theater/movies/", page |-> page, per_page |-> per_page]

\* ------------------------------------------------------------- handlers
\* Each handler is evaluated in source order; the first statement that
\* raises ends it.  An exception other than HTTPException and pydantic's
\* ValidationError is answered 500; the session is closed without a commit,
\* which discards what was flushed.

\* GET /movies/
list_movies(d, page, per_page) ==
    IF ~Resolves(MovieModelAttrs, "id")
    THEN Result(HTTP_500_INTERNAL, NoBody, d)
    ELSE
    LET total_items == Cardinality(d.movies)
        total_pages == IF total_items > 0
                       THEN (total_items + per_page - 1) \div per_page
                       ELSE 0
        offset == (page - 1) * per_page
        movies == OffsetLimit(OrderByIdDesc(d.movies), offset, per_page)
    IN  IF total_items = 0 THEN Result(HTTP_404_NOT_FOUND, NoBody, d)
        ELSE IF page > total_pages THEN Result(HTTP_404_NOT_FOUND, NoBody, d)
        ELSE IF \E i \in 1..Len(movies) : ~FullValidates(movies[i])
        THEN Result(HTTP_400_BAD_REQUEST, NoBody, d)
        ELSE Result(HTTP_200_OK,
                    [movies |-> [i \in 1..Len(movies) |-> MovieShort(movies[i])],
                     prev_page |-> IF page > 1
                                   THEN Some(PageLink(page - 1, per_page))
                                   ELSE None,
                     next_page |-> IF page < total_pages
                                   THEN Some(PageLink(page + 1, per_page))
                                   ELSE None,
                     total_pages |-> total_pages,
                     total_items |-> total_items],
                    d)

\* GET /movies/{movie_id}/
get_movie(d, movie_id) ==
    IF ~Resolves(MovieModelAttrs, "id")
    THEN Result(HTTP_500_INTERNAL, NoBody, d)
    ELSE
    LET found == {m \in d.movies : m.id_ = movie_id}
    IN  IF found = {} THEN Result(HTTP_404_NOT_FOUND, NoBody, d)
        ELSE LET movie == CHOOSE m \in found : TRUE
             IN  IF ~FullValidates(movie)
                 THEN Result(HTTP_400_BAD_REQUEST, NoBody, d)
                 ELSE Result(HTTP_200_OK, MovieFull(d, movie), d)

RECURSIVE get_or_create(_, _)
\* create_movie.get_or_create: per name, select the row or add and flush a
\* new one; a flushed row is seen by the later selects of the same session.
\* Yields the rows of the table and the objects in the order of the names.
get_or_create(rows, names) ==
    IF names = <<>> THEN [rows |-> rows, objs |-> <<>>]
    ELSE LET found == {t \in rows : t.name = Head(names)}
             obj == IF found # {} THEN CHOOSE t \in found : TRUE
                    ELSE [id_ |-> NextId(rows), name |-> Head(names)]
             rest == get_or_create(rows \cup {obj}, Tail(names))
         IN  [rows |-> rest.rows, objs |-> <<obj>> \o rest.objs]

\* the secondary rows the unit of work inserts for one collection: one per
\* element, so an object held twice is inserted twice and the second insert
\* violates the primary key (movie_id, tag_id)
HeldTwice(objs) ==
    \E i, j \in 1..Len(objs) : i # j /\ objs[i] = objs[j]
SecondaryRows(movie_id, objs) ==
    {[movie_id |-> movie_id, tag_id |-> objs[i].id_] : i \in 1..Len(objs)}

\* create_movie, "# Country": no country for an empty code, else the row
\* with that code, added and flushed when there is none
country_of(d, code) ==
    LET known == {c \in d.countries : c.code = code}
    IN  IF code = "" THEN None
        ELSE IF known # {} THEN Some(CHOOSE c \in known : TRUE)
        ELSE Some([id_ |-> NextId(d.countries), code |-> code,
                   name |-> None])

\* create_movie once the select of the existing movie has been built
create_movie_selected(d, movie_data) ==
    LET existing == {m \in d.movies : m.name = movie_data.name
                                      /\ m.date = movie_data.release_date}
        country == country_of(d, movie_data.country)
        countries == IF country = None THEN d.countries
                     ELSE d.countries \cup {country[1]}
        got == [k \in TagKinds |-> get_or_create(d.tags[k], movie_data[k])]
        new_movie ==
            [id_ |-> NextId(d.movies),
             name |-> movie_data.name,
             date |-> movie_data.release_date,
             score |-> movie_data.score,
             overview |-> movie_data.overview,
             status |-> StatusDbValue(movie_data.status),
             budget |-> movie_data.budget,
             revenue |-> movie_data.revenue,
             country_id |-> IF country = None THEN None
                            ELSE Some(country[1].id_)]
        committed ==
            [movies |-> d.movies \cup {new_movie},
             countries |-> countries,
             tags |-> [k \in TagKinds |-> got[k].rows],
             junction |-> [k \in TagKinds |->
                 d.junction[k] \cup SecondaryRows(new_movie.id_, got[k].objs)]]
    IN  IF existing # {} THEN Result(HTTP_409_CONFLICT, NoBody, d)
        ELSE IF movie_data.release_date > Today + MaxFutureDays
        THEN Result(HTTP_400_BAD_REQUEST, NoBody, d)
        ELSE IF country # None /\ ~Resolves(CountryModelAttrs, "id")
        THEN Result(HTTP_500_INTERNAL, NoBody, d)
        ELSE IF ~StatusStorable(movie_data.status)
        THEN Result(HTTP_500_INTERNAL, NoBody, d)
        ELSE IF \E k \in TagKinds : HeldTwice(got[k].objs)
        THEN Result(HTTP_500_INTERNAL, NoBody, d)
        ELSE IF ~FullValidates(new_movie)
        THEN Result(HTTP_400_BAD_REQUEST, NoBody, committed)
        ELSE Result(HTTP_201_CREATED, MovieFull(committed, new_movie),
                    committed)

\* a variant of create_movie that resolves the country first and commits
\* it, before the select of the existing movie is built
create_movie_country_first(d, movie_data) ==
    LET country == country_of(d, movie_data.country)
        d1 == IF country = None THEN d
              ELSE [d EXCEPT !.countries = @ \cup {country[1]}]
    IN  IF ~Resolves(MovieCreateFields, "date")
        THEN Result(HTTP_500_INTERNAL, NoBody, d1)
        ELSE create_movie_selected(d1, movie_data)

\* POST /movies/: the select reads movie_data.name and movie_data.date
create_movie(d, movie_data) ==
    IF ~Resolves(MovieCreateFields, "date")
    THEN Result(HTTP_500_INTERNAL, NoBody, d)
    ELSE create_movie_selected(d, movie_data)

\* the columns of MovieModel that setattr can reach
ScalarColumns ==
    {"name", "date", "score", "overview", "status", "budget", "revenue"}
    \cap MovieModelAttrs

\* PATCH /movies/{movie_id}/
update_movie(d, movie_id, data) ==
    IF ~Resolves(MovieModelAttrs, "id")
    THEN Result(HTTP_500_INTERNAL, NoBody, d)
    ELSE
    LET found == {m \in d.movies : m.id_ = movie_id}
        movie == CHOOSE m \in found : TRUE
        \* model_dump(exclude_unset=True, exclude_none=True), less the
        \* association fields, which are popped
        update_data == {f \in data.fields_set : data[f] # None}
                       \ AssociationFields
        \* setattr(movie, field, value): a name that is no mapped attribute
        \* becomes a plain attribute of the object and reaches no column
        on(col) == col \in update_data /\ col \in ScalarColumns
        updated ==
            [movie EXCEPT
                !.name = IF on("name") THEN data.name[1] ELSE @,
                !.date = IF on("date") THEN data.date[1] ELSE @,
                !.score = IF on("score") THEN data.score ELSE @,
                !.overview = IF on("overview") THEN data.overview ELSE @,
                !.status = IF on("status") /\ StatusStorable(data.status[1])
                           THEN StatusDbValue(data.status[1]) ELSE @,
                !.budget = IF on("budget") THEN data.budget ELSE @,
                !.revenue = IF on("revenue") THEN data.revenue ELSE @]
        committed == [d EXCEPT !.movies = (@ \ {movie}) \cup {updated}]
    IN  IF found = {} THEN Result(HTTP_404_NOT_FOUND, NoBody, d)
        ELSE IF on("status") /\ ~StatusStorable(data.status[1])
        THEN Result(HTTP_500_INTERNAL, NoBody, d)
        ELSE IF ~UniqueMovieConstraint(committed)
        THEN Result(HTTP_500_INTERNAL, NoBody, d)
        ELSE IF ~FullValidates(updated)
        THEN Result(HTTP_400_BAD_REQUEST, NoBody, committed)
        ELSE Result(HTTP_200_OK, MovieFull(committed, updated), committed)

\* DELETE /movies/{movie_id}/
delete_movie(d, movie_id) ==
    IF ~Resolves(MovieModelAttrs, "id")
    THEN Result(HTTP_500_INTERNAL, NoBody, d)
    ELSE
    LET found == {m \in d.movies : m.id_ = movie_id}
    IN  IF found = {} THEN Result(HTTP_404_NOT_FOUND, NoBody, d)
        ELSE Result(HTTP_204_NO_CONTENT, NoBody,
                    [d EXCEPT
                        !.movies = @ \ found,
                        !.junction = [k \in TagKinds |->
                            {j \in @[k] : j.movie_id # movie_id}]])

\* ------------------------------------------------------------- actions
\* resp[c]: the request last answered for client c and its answer
NoResp == [req |-> NoReq, status |-> 0, body |-> NoBody]
Answer(r, status, body) == [req |-> r, status |-> status, body |-> body]

Init ==
    /\ db \in {d \in SeedCatalogs : SchemaOK(d)}
    /\ pending = [c \in Clients |-> NoReq]
    /\ resp = [c \in Clients |-> NoResp]

\* a request arrives: it is refused with 422 when it does not validate,
\* and otherwise waits for its handler
Receive(c, r) ==
    /\ pending[c].op = "none"
    /\ IF ValidRequest(r)
       THEN /\ pending' = [pending EXCEPT ![c] = r]
            /\ resp' = [resp EXCEPT ![c] = NoResp]
       ELSE /\ resp' = [resp EXCEPT
                    ![c] = Answer(r, HTTP_422_UNPROCESSABLE, NoBody)]
            /\ UNCHANGED pending
    /\ UNCHANGED db

\* the handler of the waiting request runs and answers
Handle(c, op, result) ==
    /\ pending[c].op = op
    /\ db' = result.db
    /\ resp' = [resp EXCEPT
            ![c] = Answer(pending[c], result.status, result.body)]
    /\ pending' = [pending EXCEPT ![c] = NoReq]

ListMovies(c) ==
    Handle(c, "list", list_movies(db, pending[c].page, pending[c].per_page))
GetMovie(c) ==
    Handle(c, "get", get_movie(db, pending[c].movie_id))
CreateMovie(c) ==
    Handle(c, "create", create_movie(db, pending[c].data))
UpdateMovie(c) ==
    Handle(c, "update",
           update_movie(db, pending[c].movie_id, pending[c].data))
DeleteMovie(c) ==
    Handle(c, "delete", delete_movie(db, pending[c].movie_id))

\* one client at a time: requests are served one after the other
Next ==
    \/ \E r \in Requests : Receive(1, r)
    \/ ListMovies(1)
    \/ GetMovie(1)
    \/ CreateMovie(1)
    \/ UpdateMovie(1)
    \/ DeleteMovie(1)

Spec == Init /\ [][Next]_vars

\* two clients whose create requests are in flight together
RaceCreates ==
    {[BaseCreate EXCEPT !.name = n, !.genres = g] :
        n \in MovieNames, g \in {<<"Noir">>, <<"Drama", "Noir">>}}
NextRace ==
    \E c \in Clients :
        \/ \E d \in RaceCreates : Receive(c, Req("create", 0, 0, 0, d))
        \/ CreateMovie(c)

SpecRace == Init /\ [][NextRace]_vars

\* ===================================================================
\* Properties
\* ===================================================================
StoredKey(d, name, date) ==
    \E m \in d.movies : m.name = name /\ m.date = date
Exists(d, movie_id) == \E m \in d.movies : m.id_ = movie_id
RowOf(d, movie_id) == CHOOSE m \in d.movies : m.id_ = movie_id
Range(seq) == {seq[i] : i \in 1..Len(seq)}
\* the names (codes) a movie is associated with
TagNamesOf(d, k, movie_id) ==
    {t.name : t \in {t \in d.tags[k] :
        [movie_id |-> movie_id, tag_id |-> t.id_] \in d.junction[k]}}
CountryCodeOf(d, movie_id) ==
    LET m == RowOf(d, movie_id)
    IN  IF m.country_id = None THEN ""
        ELSE (CHOOSE c \in d.countries : c.id_ = m.country_id[1]).code
NamesOf(seq) == {seq[i].name : i \in 1..Len(seq)}
CeilDiv(a, b) == (a + b - 1) \div b

\* C1: no two stored movies share a (name, date) pair, and a create whose
\* (name, date) is already stored answers Conflict (409) and adds no movie.
C1_DuplicateCreateConflicts ==
    [][\A c \in Clients :
         CreateMovie(c) =>
            /\ UniqueMovieConstraint(db')
            /\ StoredKey(db, pending[c].data.name,
                         pending[c].data.release_date)
               => (resp'[c].status = HTTP_409_CONFLICT /\ db' = db)]_vars

\* C2: listing an empty catalog, for any page >= 1 and per_page in [1,20],
\* answers a successful empty page: no movies, total_items = 0,
\* total_pages = 0, no prev_page and no next_page.
C2_EmptyCatalogListsEmptyPage ==
    [][\A c \in Clients :
         (ListMovies(c) /\ db.movies = {}) =>
            /\ resp'[c].status = HTTP_200_OK
            /\ resp'[c].body.movies = <<>>
            /\ resp'[c].body.total_items = 0
            /\ resp'[c].body.total_pages = 0
            /\ resp'[c].body.prev_page = None
            /\ resp'[c].body.next_page = None]_vars

\* C3: an update of an existing movie succeeds, and then each association
\* field present in the input holds exactly the set the input names (the
\* previous set is replaced), and each absent one is unchanged.
C3_UpdateReplacesAssociations ==
    [][\A c \in Clients :
         (UpdateMovie(c) /\ Exists(db, pending[c].movie_id)) =>
            LET id == pending[c].movie_id
                data == pending[c].data
                given(f) == f \in data.fields_set /\ data[f] # None
            IN  /\ resp'[c].status = HTTP_200_OK
                /\ Exists(db', id)
                /\ \A k \in TagKinds :
                     TagNamesOf(db', k, id) =
                        IF given(k) THEN Range(data[k][1])
                        ELSE TagNamesOf(db, k, id)
                /\ CountryCodeOf(db', id) =
                        IF given("country") THEN data.country[1]
                        ELSE CountryCodeOf(db, id)]_vars

\* C4: a create with a new (name, date) succeeds, and afterwards each genre,
\* actor and language name and the country code it referenced has exactly
\* one stored row, which the new movie references, also when another movie
\* names the same tag or the request names it twice.
C4_OneRowPerNaturalKey ==
    [][\A c \in Clients :
         (CreateMovie(c)
          /\ ~StoredKey(db, pending[c].data.name,
                        pending[c].data.release_date)) =>
            LET data == pending[c].data
            IN  /\ resp'[c].status = HTTP_201_CREATED
                /\ UniqueNaturalKeys(db')
                /\ \A k \in TagKinds :
                     /\ \A n \in Range(data[k]) :
                          Cardinality({t \in db'.tags[k] : t.name = n}) = 1
                     /\ TagNamesOf(db', k, resp'[c].body.id) = Range(data[k])
                /\ data.country # "" =>
                     Cardinality({x \in db'.countries :
                                    x.code = data.country}) = 1]_vars

\* C5: when two creates are in flight together and name the same tag, which
\* is not stored yet, at most one row with that name is ever stored, and
\* neither create ends in a generic internal error: each answers Created
\* or Conflict.
C5_TagRaceEndsInConflict ==
    [][\A c, o \in Clients :
         (/\ c # o
          /\ CreateMovie(c)
          /\ \/ pending[o].op = "create"
             \/ resp[o].req.op = "create"
          /\ LET other == IF pending[o].op = "create" THEN pending[o].data
                          ELSE resp[o].req.data
             IN  \E n \in Range(pending[c].data.genres) :
                    /\ n \in Range(other.genres)
                    /\ ~\E t \in db.tags["genres"] : t.name = n) =>
            /\ UniqueNaturalKeys(db')
            /\ resp'[c].status \in {HTTP_201_CREATED, HTTP_409_CONFLICT}]_vars

\* client c is answered in this step: refused on arrival, or by its handler
Refused(c) ==
    /\ pending[c].op = "none"
    /\ resp'[c].status = HTTP_422_UNPROCESSABLE
    /\ Receive(c, resp'[c].req)
Handled(c, op) ==
    /\ pending[c].op = op
    /\ pending'[c].op = "none"
    /\ resp'[c].req.op = op

\* the rows a create of `data` answered with movie `id` must have stored
CreatedWhole(d0, d1, data, id) ==
    /\ \E m \in d1.movies \ d0.movies :
         m.id_ = id /\ m.name = data.name /\ m.date = data.release_date
    /\ \A k \in TagKinds : TagNamesOf(d1, k, id) = Range(data[k])
    /\ data.country # "" => CountryCodeOf(d1, id) = data.country

\* C6: a create is all or nothing: a create answered Created has stored the
\* movie, the tag and country rows it names and its junction rows; a create
\* answered with any error, on arrival or by the handler, leaves the
\* database as it was.
C6_CreateAllOrNothing ==
    [][\A c \in Clients :
         (Refused(c) \/ Handled(c, "create")) =>
            (resp'[c].req.op = "create" =>
                IF resp'[c].status = HTTP_201_CREATED
                THEN CreatedWhole(db, db', resp'[c].req.data,
                                  resp'[c].body.id)
                ELSE db' = db)]_vars

\* a create was answered with an error by its handler
C6_Witness ==
    \E c \in Clients :
        /\ resp[c].req.op = "create"
        /\ resp[c].status = HTTP_500_INTERNAL

OutOfBounds(data) ==
    \/ ~InRange(data.score, 0, ScoreMax)
    \/ ~NonNegative(data.budget)
    \/ ~NonNegative(data.revenue)

\* C7: an update of an existing movie whose input carries a score outside
\* [0,100] or a negative budget or revenue answers 400 (InvalidInput) and
\* leaves the database unchanged.
C7_InvalidUpdateIs400 ==
    [][\A c \in Clients :
         (/\ Refused(c) \/ Handled(c, "update")
          /\ resp'[c].req.op = "update"
          /\ Exists(db, resp'[c].req.movie_id)
          /\ OutOfBounds(resp'[c].req.data)) =>
            /\ resp'[c].status = HTTP_400_BAD_REQUEST
            /\ db' = db]_vars

\* C8: deleting an existing movie answers 204 and removes that movie and
\* exactly its junction rows, leaving tag rows, country rows, other movies
\* and their junction rows as they were; deleting an unknown id answers 404
\* and changes nothing; and no step removes a tag or country row.
C8_DeleteFrame ==
    [][/\ \A k \in TagKinds : db.tags[k] \subseteq db'.tags[k]
       /\ db.countries \subseteq db'.countries
       /\ \A c \in Clients :
            Handled(c, "delete") =>
               LET id == pending[c].movie_id
               IN  IF Exists(db, id)
                   THEN /\ resp'[c].status = HTTP_204_NO_CONTENT
                        /\ db'.movies = db.movies \ {RowOf(db, id)}
                        /\ \A k \in TagKinds :
                             db'.junction[k] =
                                {j \in db.junction[k] : j.movie_id # id}
                        /\ db'.tags = db.tags
                        /\ db'.countries = db.countries
                   ELSE /\ resp'[c].status = HTTP_404_NOT_FOUND
                        /\ db' = db]_vars

\* C9: for per_page in [1,20] and a catalog of total_items > 0 movies, a
\* listing of page <= ceil(total_items / per_page) reports that number as
\* total_pages, the last page holds total_items - (total_pages-1)*per_page
\* movies, and a listing of any later page answers 404.
C9_TotalPagesAndLastPage ==
    [][\A c \in Clients :
         (Handled(c, "list") /\ db.movies # {}) =>
            LET total_items == Cardinality(db.movies)
                per_page == pending[c].per_page
                page == pending[c].page
                total_pages == CeilDiv(total_items, per_page)
            IN  IF page > total_pages
                THEN resp'[c].status = HTTP_404_NOT_FOUND
                ELSE /\ resp'[c].status = HTTP_200_OK
                     /\ resp'[c].body.total_pages = total_pages
                     /\ page = total_pages =>
                          Len(resp'[c].body.movies) =
                             total_items - (total_pages - 1) * per_page]_vars

\* C10: a create with valid input and a (name, date) not yet stored answers
\* 201, and a get of the returned id then returns the input's name, date,
\* score, overview, status, budget, revenue, country code and genre, actor
\* and language names.
C10_CreateThenGetRoundTrip ==
    [][\A c \in Clients :
         (Handled(c, "create")
          /\ ~StoredKey(db, pending[c].data.name,
                        pending[c].data.release_date)) =>
            /\ resp'[c].status = HTTP_201_CREATED
            /\ LET data == pending[c].data
                   got == get_movie(db', resp'[c].body.id)
               IN  /\ got.status = HTTP_200_OK
                   /\ got.body.name = data.name
                   /\ got.body.release_date = data.release_date
                   /\ got.body.score = data.score
                   /\ got.body.overview = data.overview
                   /\ got.body.status = data.status
                   /\ got.body.budget = data.budget
                   /\ got.body.revenue = data.revenue
                   /\ data.country # "" =>
                        /\ got.body.country # None
                        /\ got.body.country[1].code = data.country
                   /\ \A k \in TagKinds :
                        NamesOf(got.body[k]) = Range(data[k])]_vars

\* C11: an update of an existing movie succeeds, and then every scalar field
\* present in the input (name, release date, score, overview, status,
\* budget, revenue) holds the supplied value in the stored movie and every
\* absent one holds the value it had; an update of an unknown id answers
\* 404.
C11_UpdatePatchesScalars ==
    [][\A c \in Clients :
         Handled(c, "update") =>
            LET id == pending[c].movie_id
                data == pending[c].data
                given(f) == f \in data.fields_set /\ data[f] # None
            IN  IF ~Exists(db, id)
                THEN resp'[c].status = HTTP_404_NOT_FOUND /\ db' = db
                ELSE /\ resp'[c].status = HTTP_200_OK
                     /\ Exists(db', id)
                     /\ LET old == RowOf(db, id)
                            new == RowOf(db', id)
                        IN  /\ new.name = IF given("name") THEN data.name[1]
                                          ELSE old.name
                            /\ new.date = IF given("release_date")
                                          THEN data.release_date[1]
                                          ELSE old.date
                            /\ new.score = IF given("score") THEN data.score
                                           ELSE old.score
                            /\ new.overview = IF given("overview")
                                              THEN data.overview
                                              ELSE old.overview
                            /\ MovieStatusEnum[new.status] =
                                  IF given("status") THEN data.status[1]
                                  ELSE MovieStatusEnum[old.status]
                            /\ new.budget = IF given("budget")
                                            THEN data.budget ELSE old.budget
                            /\ new.revenue = IF given("revenue")
                                             THEN data.revenue
                                             ELSE old.revenue]_vars

\* the number of stored movies with a larger id: the position, from 0, of a
\* movie in the catalog sorted by id descending
RankDesc(d, m) == Cardinality({o \in d.movies : o.id_ > m.id_})

\* C12: for a non-empty catalog and a page in 1..total_pages, the listing
\* answers 200 with exactly the movies at positions (page-1)*per_page+1 ..
\* min(page*per_page, total_items) of the catalog sorted by id descending,
\* in that order.
C12_PageIsSliceOfIdDescending ==
    [][\A c \in Clients :
         (/\ Handled(c, "list")
          /\ db.movies # {}
          /\ pending[c].page <=
                CeilDiv(Cardinality(db.movies), pending[c].per_page)) =>
            LET page == pending[c].page
                per_page == pending[c].per_page
                first == (page - 1) * per_page
            IN  /\ resp'[c].status = HTTP_200_OK
                /\ LET movies == resp'[c].body.movies
                   IN  /\ {movies[i].id : i \in 1..Len(movies)} =
                            {m.id_ : m \in {m \in db.movies :
                                /\ RankDesc(db, m) >= first
                                /\ RankDesc(db, m) < first + per_page}}
                       /\ \A i \in 1..Len(movies) :
                            \E m \in db.movies :
                               /\ m.id_ = movies[i].id
                               /\ RankDesc(db, m) = first + i - 1]_vars

\* C13: a successful listing of page p with per_page n has prev_page null
\* exactly when p = 1, and otherwise the listing path with page p-1 and
\* per_page n; and next_page null exactly when p = total_pages, and
\* otherwise the listing path with page p+1 and per_page n.  Every listing
\* of a page in 1..total_pages of a non-empty catalog is successful.
C13_PrevNextLinks ==
    [][\A c \in Clients :
         (/\ Handled(c, "list")
          /\ db.movies # {}
          /\ pending[c].page <=
                CeilDiv(Cardinality(db.movies), pending[c].per_page)) =>
            LET p == pending[c].page
                n == pending[c].per_page
                total_pages == CeilDiv(Cardinality(db.movies), n)
                link(q) == Some([base_url |-> "/theater/movies/",
                                 page |-> q, per_page |-> n])
            IN  /\ resp'[c].status = HTTP_200_OK
                /\ resp'[c].body.prev_page =
                      IF p = 1 THEN None ELSE link(p - 1)
                /\ resp'[c].body.next_page =
                      IF p = total_pages THEN None ELSE link(p + 1)]_vars

====
